---- MODULE Spec2Model ----
(***************************************************************************)
(* Order execution engine: the intake route, the store, the BullMQ job     *)
(* queue and worker (processOrder), the mock DEX router and the WebSocket  *)
(* registry, as a state machine.                                           *)
(*                                                                         *)
(* Nullable values (SQL NULL, JavaScript undefined) are the empty tuple    *)
(* NULL; a present value v is the one-element tuple Some(v).  Amounts are  *)
(* small integers; slippage is counted in units of 0.0001 (0.01 = 100);    *)
(* time is counted in milliseconds.                                        *)
(*                                                                         *)
(* Specifications:                                                         *)
(*   IntakeSpec   POST /api/orders/execute over every request body;        *)
(*   Spec         the life of accepted orders: intake, queue, processOrder,*)
(*                retries with backoff, the close timers;                  *)
(*   FairSpec     Spec with a store that executes every update, and with   *)
(*                the fairness of the event loop and the queue;            *)
(*   StreamSpec   one accepted order and the status streams clients open;  *)
(*   FairStreamSpec  StreamSpec with the fairness of the server side;      *)
(*   RegistrySpec one saved order and the sockets clients open for it,    *)
(*                without the worker;                                      *)
(*   ShutdownSpec one accepted order and a SIGINT or SIGTERM that reaches  *)
(*                the process while it is handled;                         *)
(*   PoolSpec     the worker pool with more orders than Concurrency, the   *)
(*                orders counted by class instead of told apart;           *)
(*   LimiterSpec  the worker's rate limiter over more than LimiterMax job  *)
(*                starts.                                                  *)
(***************************************************************************)
EXTENDS Integers, Sequences, FiniteSets, TLC

\* ------------------------------------------------------------------ bounds
MaxOrders == 2
OrderIds == 1..MaxOrders

\* Sockets opened in RegistrySpec, and in StreamSpec.
MaxSockets == 2
MaxStreamSockets == 1

\* Orders queued in FanoutSpec.
MaxFanoutJobs == 1

\* Orders beyond Concurrency in PoolSpec.
PoolExtra == 1

\* ------------------------------------------------------- program constants
Attempts == 3
BackoffDelay == 1000
Concurrency == 10
LimiterMax == 100
LimiterDuration == 60000
DefaultSlippage == 100
WRAPPED_SOL_ADDRESS == "So11111111111111111111111111111111111111112"

NULL == <<>>
Some(v) == <<v>>

\* JavaScript truthiness of an optional string / an optional number.
TruthyStr(x) == x # NULL /\ x # Some("")
TruthyNum(x) == x # NULL /\ x # Some(0)

VARIABLES
    store,        \* table orders: order_id -> row (the domain is the set of saved ids)
    jobs,         \* the BullMQ queue: job id -> [state, attemptsMade, attemptsStarted, data, delay]
    proc,         \* active processOrder activities: job id -> [pc, route, result]
    http,         \* POST requests that passed validation: order id -> [pc, body, order, code]
    reply400,     \* the latest 400 reply, with the body it answers (NULL when none yet)
    connections,  \* WebSocketManager.connections: order id -> socket
    sockets,      \* socket -> [orderId, pc, readyState, frames, handlers, closeEvent,
                  \* read, opened]: the stream request it serves, the frames
                  \* delivered on it, the row its getOrder query read and the
                  \* stored status of its order when it was opened
    timers,       \* per order, the pending setTimeout(closeConnection) callbacks
    published,    \* per order, the status of the worker's latest sendUpdate call
    sinceFail,    \* per job, milliseconds elapsed since its latest failed attempt
    pool,         \* PoolSpec: the number of orders of each class
    limiter,      \* LimiterSpec: the rate limiter key and the recent job starts
    lifecycle     \* ShutdownSpec: the signal received, where the two signal handlers
                  \* stand, the store calls in flight when pool.end() was called,
                  \* and whether the process has exited

storeVars == <<store>>
intakeVars == <<http, reply400>>
registryVars == <<connections, sockets>>
abstractVars == <<pool, limiter, lifecycle>>
vars == <<store, jobs, proc, http, reply400, connections, sockets, timers,
          published, sinceFail, pool, limiter, lifecycle>>

\* ------------------------------------------------------------------- store

\* saveOrder: INSERT of the nine columns it names; the others default to NULL.
\* A saveOrder that resolves without inserting the row.
saveOrderLost(s, order) == s

saveOrder(s, order) ==
    [o \in DOMAIN s \cup {order.orderId} |->
        IF o = order.orderId
        THEN [orderType     |-> order.orderType,
              tokenIn       |-> order.tokenIn,
              tokenOut      |-> order.tokenOut,
              amountIn      |-> order.amountIn,
              slippage      |-> IF order.slippage = 0 THEN DefaultSlippage
                                ELSE order.slippage,
              status        |-> order.status,
              dexUsed       |-> NULL,
              executedPrice |-> NULL,
              amountOut     |-> NULL,
              txHash        |-> NULL,
              error         |-> NULL]
        ELSE s[o]]

\* The updates object of an updateOrder call: absent keys are NULL.
NoUpdates ==
    [status |-> NULL, dexUsed |-> NULL, executedPrice |-> NULL,
     amountOut |-> NULL, txHash |-> NULL, error |-> NULL]

\* An updateOrder that creates the row of an id it does not find.
updateOrderUpsert(s, orderId, updates) ==
    IF orderId \notin DOMAIN s
    THEN [o \in DOMAIN s \cup {orderId} |->
            IF o = orderId
            THEN [orderType |-> "", tokenIn |-> "", tokenOut |-> "", amountIn |-> 0,
                  slippage |-> DefaultSlippage,
                  status |-> IF TruthyStr(updates.status) THEN updates.status[1] ELSE "",
                  dexUsed |-> updates.dexUsed, executedPrice |-> updates.executedPrice,
                  amountOut |-> updates.amountOut, txHash |-> updates.txHash,
                  error |-> updates.error]
            ELSE s[o]]
    ELSE [s EXCEPT ![orderId] =
            [@ EXCEPT
               !.status        = IF TruthyStr(updates.status)
                                 THEN updates.status[1] ELSE @,
               !.dexUsed       = IF TruthyStr(updates.dexUsed)
                                 THEN updates.dexUsed ELSE @,
               !.executedPrice = IF TruthyNum(updates.executedPrice)
                                 THEN updates.executedPrice ELSE @,
               !.amountOut     = IF TruthyNum(updates.amountOut)
                                 THEN updates.amountOut ELSE @,
               !.txHash        = IF updates.txHash # NULL
                                 THEN updates.txHash ELSE @,
               !.error         = IF updates.error # NULL
                                 THEN updates.error ELSE @]]

\* An updateOrder that sets dex_used from every call, given or not.
updateOrderSetsDex(s, orderId, updates) ==
    IF orderId \notin DOMAIN s THEN s
    ELSE [s EXCEPT ![orderId] =
            [@ EXCEPT
               !.status        = IF TruthyStr(updates.status)
                                 THEN updates.status[1] ELSE @,
               !.dexUsed       = updates.dexUsed,
               !.executedPrice = IF TruthyNum(updates.executedPrice)
                                 THEN updates.executedPrice ELSE @,
               !.amountOut     = IF TruthyNum(updates.amountOut)
                                 THEN updates.amountOut ELSE @,
               !.txHash        = IF updates.txHash # NULL
                                 THEN updates.txHash ELSE @,
               !.error         = IF updates.error # NULL
                                 THEN updates.error ELSE @]]

\* An updateOrder that also rewrites a native-SOL token_in to the wrapped
\* address.
updateOrderWrapsSol(s, orderId, updates) ==
    IF orderId \notin DOMAIN s THEN s
    ELSE [s EXCEPT ![orderId] =
            [@ EXCEPT
               !.tokenIn       = IF @ = "SOL" THEN WRAPPED_SOL_ADDRESS ELSE @,
               !.status        = IF TruthyStr(updates.status)
                                 THEN updates.status[1] ELSE @,
               !.dexUsed       = IF TruthyStr(updates.dexUsed)
                                 THEN updates.dexUsed ELSE @,
               !.executedPrice = IF TruthyNum(updates.executedPrice)
                                 THEN updates.executedPrice ELSE @,
               !.amountOut     = IF TruthyNum(updates.amountOut)
                                 THEN updates.amountOut ELSE @,
               !.txHash        = IF updates.txHash # NULL
                                 THEN updates.txHash ELSE @,
               !.error         = IF updates.error # NULL
                                 THEN updates.error ELSE @]]

\* updateOrder: UPDATE ... SET <the truthy keys> WHERE order_id = orderId;
\* an id with no row matches nothing.
updateOrder(s, orderId, updates) ==
    IF orderId \notin DOMAIN s THEN s
    ELSE [s EXCEPT ![orderId] =
            [@ EXCEPT
               !.status        = IF TruthyStr(updates.status)
                                 THEN updates.status[1] ELSE @,
               !.dexUsed       = IF TruthyStr(updates.dexUsed)
                                 THEN updates.dexUsed ELSE @,
               !.executedPrice = IF TruthyNum(updates.executedPrice)
                                 THEN updates.executedPrice ELSE @,
               !.amountOut     = IF TruthyNum(updates.amountOut)
                                 THEN updates.amountOut ELSE @,
               !.txHash        = IF updates.txHash # NULL
                                 THEN updates.txHash ELSE @,
               !.error         = IF updates.error # NULL
                                 THEN updates.error ELSE @]]

\* getOrder: the row, or NULL.
getOrder(s, orderId) == IF orderId \in DOMAIN s THEN Some(s[orderId]) ELSE NULL

\* ------------------------------------------------------------------ intake

\* Request bodies: every field may be missing (NULL).
Bodies ==
    [orderType : {Some("market"), Some("limit")},
     tokenIn   : {NULL, Some("SOL")},
     tokenOut  : {NULL, Some("USDC")},
     amountIn  : {NULL, Some(0), Some(-1), Some(1)},
     slippage  : {NULL, Some(0), Some(50), Some(200 * DefaultSlippage)}]

NoError == ""

\* The three validation steps of the POST handler, in order.
\* The validation without the check of the amount's sign.
ValidationErrorNoAmount(body) ==
    IF ~TruthyStr(body.tokenIn) \/ ~TruthyStr(body.tokenOut)
       \/ ~TruthyNum(body.amountIn)
    THEN "Missing required fields: tokenIn, tokenOut, amountIn"
    ELSE IF body.orderType # Some("market")
    THEN "Only market orders are supported in this implementation"
    ELSE NoError

ValidationError(body) ==
    IF ~TruthyStr(body.tokenIn) \/ ~TruthyStr(body.tokenOut)
       \/ ~TruthyNum(body.amountIn)
    THEN "Missing required fields: tokenIn, tokenOut, amountIn"
    ELSE IF body.orderType # Some("market")
    THEN "Only market orders are supported in this implementation"
    ELSE IF body.amountIn[1] <= 0
    THEN "Amount must be greater than 0"
    ELSE NoError

\* The order object the handler builds for a validated body.
BuildOrder(orderId, body) ==
    [orderId   |-> orderId,
     orderType |-> body.orderType[1],
     tokenIn   |-> body.tokenIn[1],
     tokenOut  |-> body.tokenOut[1],
     amountIn  |-> body.amountIn[1],
     slippage  |-> IF TruthyNum(body.slippage) THEN body.slippage[1]
                   ELSE DefaultSlippage,
     status    |-> "pending"]

\* uuidv4(): an id no earlier request was given.
FreshIds == OrderIds \ DOMAIN http
uuidv4 == CHOOSE o \in FreshIds : \A p \in FreshIds : o <= p

\* orderQueue.add('process-order', order, {jobId}): a job id already in the
\* queue is not added again.
QueueAdd(q, jobId, data) ==
    IF jobId \in DOMAIN q THEN q
    ELSE [j \in DOMAIN q \cup {jobId} |->
            IF j = jobId
            THEN [state |-> "wait", attemptsMade |-> 0, attemptsStarted |-> 0,
                  data |-> data, delay |-> 0]
            ELSE q[j]]

\* POST /api/orders/execute up to its first await: a 400 reply, or the order
\* object and the saveOrder call.
Post(body) ==
    IF ValidationError(body) # NoError
    THEN /\ reply400' = Some([body |-> body, error |-> ValidationError(body)])
         /\ UNCHANGED <<store, jobs, proc, http, registryVars, timers, published,
                        sinceFail, abstractVars>>
    ELSE /\ FreshIds # {}
         /\ http' = [o \in DOMAIN http \cup {uuidv4} |->
                        IF o = uuidv4
                        THEN [pc |-> "saveOrder", body |-> body,
                              order |-> BuildOrder(uuidv4, body), code |-> 0]
                        ELSE http[o]]
         /\ UNCHANGED <<store, jobs, proc, reply400, registryVars, timers, published,
                        sinceFail, abstractVars>>

\* saveOrder resolves (the row is inserted and orderQueue.add is called) or
\* rejects (the catch block replies 500).
SaveOrderDone(o) ==
    /\ o \in DOMAIN http
    /\ http[o].pc = "saveOrder"
    /\ \/ /\ store' = saveOrder(store, http[o].order)
          /\ http' = [http EXCEPT ![o].pc = "add"]
       \/ /\ http' = [http EXCEPT ![o].pc = "replied", ![o].code = 500]
          /\ UNCHANGED store
    /\ UNCHANGED <<jobs, proc, reply400, registryVars, timers, published, sinceFail,
                   abstractVars>>

\* orderQueue.add resolves (the job is queued and 201 is sent) or rejects
\* (the catch block replies 500).
QueueAddDone(o) ==
    /\ o \in DOMAIN http
    /\ http[o].pc = "add"
    /\ \/ /\ jobs' = QueueAdd(jobs, o, http[o].order)
          /\ http' = [http EXCEPT ![o].pc = "replied", ![o].code = 201]
       \/ /\ http' = [http EXCEPT ![o].pc = "replied", ![o].code = 500]
          /\ UNCHANGED jobs
    /\ UNCHANGED <<store, proc, reply400, registryVars, timers, published, sinceFail,
                   abstractVars>>

\* ---------------------------------------------------------------- registry

\* The frames a socket carries: the updates sendUpdate builds, the anchor
\* the stream handler sends after registering, and the handler's error frames.
Frame(orderId, status, data) ==
    [kind |-> "update", orderId |-> orderId, status |-> status, data |-> data,
     error |-> ""]
\* An anchor frame that always announces pending.
AnchorFramePending(orderId, status) ==
    [kind |-> "anchor", orderId |-> orderId, status |-> "pending", data |-> NULL,
     error |-> ""]

\* The frame the stream handler sends first: the status it read.
AnchorFrame(orderId, status) ==
    [kind |-> "anchor", orderId |-> orderId, status |-> status, data |-> NULL,
     error |-> ""]
ErrorFrame(orderId, error) ==
    [kind |-> "error", orderId |-> orderId, status |-> "", data |-> NULL,
     error |-> error]

\* socket.send(frame): the frame is delivered on an open socket and dropped
\* on one that is no longer open.
Send(socks, k, frame) ==
    IF socks[k].readyState = "open"
    THEN [socks EXCEPT ![k].frames = Append(@, frame)]
    ELSE socks

\* socket.close(): the socket is closed; its 'close' event, if handlers were
\* installed on it, is emitted later.
Close(socks, k) ==
    IF socks[k].readyState = "open"
    THEN [socks EXCEPT ![k].readyState = "closed", ![k].closeEvent = socks[k].handlers]
    ELSE socks

\* The WebSocketManager: the connections map and the sockets it refers to.
Registry == [connections |-> connections, sockets |-> sockets]

\* this.connections.delete(orderId)
Delete(conns, orderId) == [c \in DOMAIN conns \ {orderId} |-> conns[c]]

\* registerConnection: the entry of the order id is set to the socket (over
\* any earlier entry) and the close and error handlers are installed.
registerConnection(reg, orderId, k) ==
    [connections |-> [c \in DOMAIN reg.connections \cup {orderId} |->
                         IF c = orderId THEN k ELSE reg.connections[c]],
     sockets |-> [reg.sockets EXCEPT ![k].handlers = TRUE]]

\* A sendUpdate that, finding no entry for the order, sends to the open
\* sockets that serve its id.
sendUpdateStale(reg, orderId, status, data) ==
    IF orderId \notin DOMAIN reg.connections
    THEN {[reg EXCEPT !.sockets =
              [k \in DOMAIN reg.sockets |->
                  IF reg.sockets[k].orderId = orderId /\ reg.sockets[k].readyState = "open"
                  THEN [reg.sockets[k] EXCEPT
                          !.frames = Append(@, Frame(orderId, status, data))]
                  ELSE reg.sockets[k]]]}
    ELSE {[reg EXCEPT !.sockets =
              Send(reg.sockets, reg.connections[orderId], Frame(orderId, status, data))],
          [reg EXCEPT !.connections = Delete(reg.connections, orderId)]}

\* A sendUpdate that sends the frame to every registered socket.
sendUpdateBroadcast(reg, orderId, status, data) ==
    IF orderId \notin DOMAIN reg.connections
    THEN {reg}
    ELSE {[reg EXCEPT !.sockets =
              [k \in DOMAIN reg.sockets |->
                  IF /\ \E o \in DOMAIN reg.connections : reg.connections[o] = k
                     /\ reg.sockets[k].readyState = "open"
                  THEN [reg.sockets[k] EXCEPT
                          !.frames = Append(@, Frame(orderId, status, data))]
                  ELSE reg.sockets[k]]],
          [reg EXCEPT !.connections = Delete(reg.connections, orderId)]}

\* A sendUpdate whose catch block leaves the entry in place.
sendUpdateKeepsEntry(reg, orderId, status, data) ==
    IF orderId \notin DOMAIN reg.connections
    THEN {reg}
    ELSE {[reg EXCEPT !.sockets =
              Send(reg.sockets, reg.connections[orderId], Frame(orderId, status, data))],
          reg}

\* sendUpdate, as the set of registries it may leave: nothing changes without
\* a registered socket; otherwise the frame is sent, or the send throws and
\* the entry is deleted.
sendUpdate(reg, orderId, status, data) ==
    IF orderId \notin DOMAIN reg.connections
    THEN {reg}
    ELSE {[reg EXCEPT !.sockets =
              Send(reg.sockets, reg.connections[orderId], Frame(orderId, status, data))],
          [reg EXCEPT !.connections = Delete(reg.connections, orderId)]}

\* A closeConnection that closes the socket and keeps the entry.
closeConnectionKeep(reg, orderId) ==
    IF orderId \notin DOMAIN reg.connections
    THEN reg
    ELSE [reg EXCEPT !.sockets = Close(reg.sockets, reg.connections[orderId])]

\* closeConnection: the registered socket, if any, is closed and its entry deleted.
closeConnection(reg, orderId) ==
    IF orderId \notin DOMAIN reg.connections
    THEN reg
    ELSE [connections |-> Delete(reg.connections, orderId),
          sockets |-> Close(reg.sockets, reg.connections[orderId])]

\* The registry becomes reg.
SetRegistry(reg) == connections' = reg.connections /\ sockets' = reg.sockets

\* setTimeout(() => wsManager.closeConnection(orderId), 1000)
setTimeoutClose(orderId) == timers' = [timers EXCEPT ![orderId] = @ + 1]

\* A close timer of the order fires.
CloseTimerFires(o) ==
    /\ timers[o] > 0
    /\ timers' = [timers EXCEPT ![o] = @ - 1]
    /\ SetRegistry(closeConnection(Registry, o))
    /\ UNCHANGED <<store, jobs, proc, intakeVars, published, sinceFail, abstractVars>>

\* ------------------------------------------------------------------ stream
\* GET /api/orders/:orderId/stream

SocketIds == 1..MaxSockets
FreshSockets == SocketIds \ DOMAIN sockets

\* The frames the handler sends itself.
NotFound == "Order not found"
NotEstablished == "Failed to establish WebSocket connection"

\* Whether the handler registers the socket: only for an order it found.
StreamRegistersAny(order) == TRUE
StreamRegisters(order) == order # NULL

\* The data of the terminal frame the handler sends from the row it read.
StreamFinalData(row) ==
    IF row.status = "confirmed"
    THEN Some([txHash |-> row.txHash, executedPrice |-> row.executedPrice,
               amountOut |-> row.amountOut,
               dexUsed |-> IF row.dexUsed = NULL THEN "" ELSE row.dexUsed[1]])
    ELSE row.error

\* A client opens the stream of an order id (known to the store or not): the
\* handler starts on a new socket and awaits getOrder, whose SELECT the store
\* executes now; the handler resumes with that row later.
StreamOpen(o) ==
    /\ FreshSockets # {}
    /\ LET k == CHOOSE x \in FreshSockets : \A y \in FreshSockets : x <= y
       IN  sockets' = [x \in DOMAIN sockets \cup {k} |->
                          IF x = k
                          THEN [orderId |-> o, pc |-> "getOrder", readyState |-> "open",
                                frames |-> <<>>, handlers |-> FALSE, closeEvent |-> FALSE,
                                read |-> getOrder(store, o),
                                opened |-> IF o \in DOMAIN store THEN store[o].status
                                           ELSE ""]
                          ELSE sockets[x]]
    /\ UNCHANGED <<store, jobs, proc, intakeVars, connections, timers, published,
                   sinceFail, abstractVars>>

\* getOrder resolves with the row read and the handler runs to its end,
\* whatever the worker has done in between: without a row, the
\* error frame and the close; with one, the registration, the anchor frame
\* and, when the row read is confirmed or failed, the terminal frame and
\* the close timer.
StreamGetOrderDone(k) ==
    /\ k \in DOMAIN sockets
    /\ sockets[k].pc = "getOrder"
    /\ LET o == sockets[k].orderId
           order == sockets[k].read
           done == [sockets EXCEPT ![k].pc = "done"]
       IN  IF order = NULL
           THEN /\ SetRegistry(
                     IF StreamRegisters(order)
                     THEN registerConnection(
                              [connections |-> connections,
                               sockets |-> Close(Send(done, k, ErrorFrame(o, NotFound)), k)],
                              o, k)
                     ELSE [connections |-> connections,
                           sockets |-> Close(Send(done, k, ErrorFrame(o, NotFound)), k)])
                /\ UNCHANGED timers
           ELSE LET registered == registerConnection(
                                      [connections |-> connections, sockets |-> done], o, k)
                    anchored == [registered EXCEPT
                                   !.sockets = Send(@, k, AnchorFrame(o, order[1].status))]
                IN  IF order[1].status \in {"confirmed", "failed"}
                    THEN /\ \E reg \in sendUpdate(anchored, o, order[1].status,
                                                  StreamFinalData(order[1])) :
                                SetRegistry(reg)
                         /\ setTimeoutClose(o)
                    ELSE /\ SetRegistry(anchored)
                         /\ UNCHANGED timers
    /\ UNCHANGED <<store, jobs, proc, intakeVars, published, sinceFail, abstractVars>>

\* getOrder rejects: the catch block sends its error frame and closes.
StreamGetOrderRejects(k) ==
    /\ k \in DOMAIN sockets
    /\ sockets[k].pc = "getOrder"
    /\ sockets' = Close(Send([sockets EXCEPT ![k].pc = "done"], k,
                             ErrorFrame(sockets[k].orderId, NotEstablished)), k)
    /\ UNCHANGED <<store, jobs, proc, intakeVars, connections, timers, published,
                   sinceFail, abstractVars>>

\* A close of the client's socket that cancels the attempt running for its
\* order.
ClientClosesCancels(k) ==
    /\ k \in DOMAIN sockets
    /\ sockets[k].readyState = "open"
    /\ sockets' = Close(sockets, k)
    /\ proc' = [j \in DOMAIN proc \ {sockets[k].orderId} |-> proc[j]]
    /\ jobs' = [j \in DOMAIN jobs |->
                  IF j = sockets[k].orderId /\ jobs[j].state = "active"
                  THEN [jobs[j] EXCEPT !.state = "failed"]
                  ELSE jobs[j]]
    /\ UNCHANGED <<store, intakeVars, connections, timers, published, sinceFail,
                   abstractVars>>

\* The client closes its socket.
ClientCloses(k) ==
    /\ k \in DOMAIN sockets
    /\ sockets[k].readyState = "open"
    /\ sockets' = Close(sockets, k)
    /\ UNCHANGED <<store, jobs, proc, intakeVars, connections, timers, published,
                   sinceFail, abstractVars>>

\* The 'close' event of a socket on which registerConnection installed its
\* handlers (the 'error' handler does the same): the entry of the socket's
\* order id is deleted.
SocketCloseEvent(k) ==
    /\ k \in DOMAIN sockets
    /\ sockets[k].closeEvent
    /\ sockets' = [sockets EXCEPT ![k].closeEvent = FALSE]
    /\ connections' = Delete(connections, sockets[k].orderId)
    /\ UNCHANGED <<store, jobs, proc, intakeVars, timers, published, sinceFail,
                   abstractVars>>

\* ------------------------------------------------------------- DEX router

\* The amountOut values a quote may carry (amountIn * price * (1 - fee) with a
\* random price), and the two quotes getBestRoute compares.
QuoteAmounts == {10, 20}
RaydiumQuotes == [dex : {"raydium"}, amountOut : QuoteAmounts]
MeteoraQuotes == [dex : {"meteora"}, amountOut : QuoteAmounts]

\* getBestRoute's actualTokenIn / actualTokenOut: native SOL is replaced by
\* the wrapped SOL address.
ActualToken(token) == IF token = "SOL" THEN WRAPPED_SOL_ADDRESS ELSE token

\* getRaydiumQuote / getMeteorQuote: the quotes a call may return; the
\* tokens reach the log only.
getRaydiumQuote(tokenIn, tokenOut, amountIn) == RaydiumQuotes
getMeteorQuote(tokenIn, tokenOut, amountIn) == MeteoraQuotes

\* Math.abs(a - b)
Abs(n) == IF n < 0 THEN 0 - n ELSE n

\* A getBestRoute that selects the quote with the smaller amountOut.
getBestRouteWorse(raydiumQuote, meteoraQuote) ==
    LET selectedQuote == IF raydiumQuote.amountOut < meteoraQuote.amountOut
                         THEN raydiumQuote ELSE meteoraQuote
    IN  [selectedDex |-> selectedQuote.dex, quote |-> selectedQuote,
         reason |-> [dex |-> selectedQuote.dex, amountOut |-> selectedQuote.amountOut,
                     difference |-> Abs(raydiumQuote.amountOut - meteoraQuote.amountOut)]]

\* getBestRoute: the raydium quote when its amountOut is strictly larger,
\* otherwise the meteora quote; the reason names the selected dex, its
\* amountOut and the difference between the two quotes.
getBestRoute(raydiumQuote, meteoraQuote) ==
    LET selectedQuote == IF raydiumQuote.amountOut > meteoraQuote.amountOut
                         THEN raydiumQuote ELSE meteoraQuote
    IN  [selectedDex |-> selectedQuote.dex, quote |-> selectedQuote,
         reason |-> [dex |-> selectedQuote.dex, amountOut |-> selectedQuote.amountOut,
                     difference |-> Abs(raydiumQuote.amountOut - meteoraQuote.amountOut)]]

CongestionError == "Simulation: Transaction failed due to network congestion"

\* executeSwap: a failure (the 5% branch), or a success whose amountOut is
\* expectedAmountOut * (1 - Math.random() * slippage): the expected amount
\* less a loss below the tolerance, which with a tolerance above 1.0 may be
\* the whole amount or more; the price is amountOut / amountIn and the hash
\* is new for every call.
executeSwap(callId, amountIn, expectedAmountOut, slippage) ==
    {[success |-> FALSE, txHash |-> NULL, executedPrice |-> NULL,
      amountOut |-> NULL, error |-> Some(CongestionError)]}
    \cup
    {[success |-> TRUE, txHash |-> Some(callId),
      executedPrice |-> Some((expectedAmountOut - loss) \div amountIn),
      amountOut |-> Some(expectedAmountOut - loss), error |-> NULL] :
        loss \in {l \in {0, 1, expectedAmountOut, expectedAmountOut + 1} :
                    \/ l = 0
                    \/ l = 1 /\ slippage > 0
                    \/ slippage > 100 * DefaultSlippage}}

\* ------------------------------------------------------------------ worker

Active == DOMAIN proc

\* The worker's concurrency option: a job is taken while fewer than
\* Concurrency jobs are active.
\* A pool that takes one job more than Concurrency, and one that takes any number.
HasCapacityOff(active) == active <= Concurrency
HasCapacityAny(active) == TRUE
HasCapacity(active) == active < Concurrency

\* Exponential backoff of the queue's defaultJobOptions: the delay before the
\* attempt that follows the attemptsMade-th failure.
\* A fixed backoff.
BackoffFixed(attemptsMade) == BackoffDelay
Backoff(attemptsMade) == BackoffDelay * 2 ^ (attemptsMade - 1)

\* The queue's disposition of a job whose attemptsMade-th attempt threw:
\* delayed for a retry while attempts remain, failed otherwise.
\* A queue that allows one attempt more.
RetryStateOff(attemptsMade) == IF attemptsMade <= Attempts THEN "delayed" ELSE "failed"
RetryState(attemptsMade) == IF attemptsMade < Attempts THEN "delayed" ELSE "failed"

\* The queue's handling of a processor that threw: the attempt is counted
\* and the job is delayed with its backoff, or failed.
MoveToFailed(q, o) ==
    LET made == q[o].attemptsMade + 1
    IN  [q EXCEPT ![o].attemptsMade = made,
                  ![o].state = RetryState(made),
                  ![o].delay = IF RetryState(made) = "delayed" THEN Backoff(made) ELSE 0]

\* sendUpdate as the worker calls it.
Publish(o, status, data) ==
    /\ \E reg \in sendUpdate(Registry, o, status, data) : SetRegistry(reg)
    /\ published' = [published EXCEPT ![o] = status]

\* The job leaves the active set.
Release(o) == proc' = [j \in Active \ {o} |-> proc[j]]

\* The test of the catch block: job.attemptsMade >= (job.opts.attempts || 3).
\* A catch block that takes every failed attempt for the final one.
isFinalAttemptAlways(attemptsMade) == attemptsMade >= 0

isFinalAttempt(attemptsMade) == attemptsMade >= Attempts

\* The error text persisted on a final failure:
\* `${error.message} | Attempts: ${job.attemptsMade}/${attempts} | Failed at: ...`
FailedError(message, attemptsMade) ==
    [message |-> message, attempts |-> attemptsMade, maxAttempts |-> Attempts]

\* A catch block that persists the error of every failed attempt, final or not.
CatchRecords(o, message) ==
    /\ IF isFinalAttempt(jobs[o].attemptsMade)
       THEN \E stored \in BOOLEAN :
               IF stored
               THEN /\ store' = updateOrder(store, o,
                          [NoUpdates EXCEPT
                             !.status = Some("failed"),
                             !.error = Some(FailedError(message, jobs[o].attemptsMade))])
                    /\ Publish(o, "failed",
                               Some(FailedError(message, jobs[o].attemptsMade)))
                    /\ setTimeoutClose(o)
               ELSE UNCHANGED <<store, published, registryVars, timers>>
       ELSE /\ store' = updateOrder(store, o,
                  [NoUpdates EXCEPT
                     !.error = Some(FailedError(message, jobs[o].attemptsMade))])
            /\ UNCHANGED <<published, registryVars, timers>>
    /\ jobs' = MoveToFailed(jobs, o)
    /\ Release(o)
    /\ sinceFail' = [sinceFail EXCEPT ![o] = 0]

\* The catch block of processOrder with error.message = message: on a final
\* attempt the failure is persisted, published and the close timer set
\* (unless that updateOrder rejects too); in every case the error is
\* rethrown and the queue moves the job.
Catch(o, message) ==
    /\ IF isFinalAttempt(jobs[o].attemptsMade)
       THEN \E stored \in BOOLEAN :
               IF stored
               THEN /\ store' = updateOrder(store, o,
                          [NoUpdates EXCEPT
                             !.status = Some("failed"),
                             !.error = Some(FailedError(message, jobs[o].attemptsMade))])
                    /\ Publish(o, "failed",
                               Some(FailedError(message, jobs[o].attemptsMade)))
                    /\ setTimeoutClose(o)
               ELSE UNCHANGED <<store, published, registryVars, timers>>
       ELSE UNCHANGED <<store, published, registryVars, timers>>
    /\ jobs' = MoveToFailed(jobs, o)
    /\ Release(o)
    /\ sinceFail' = [sinceFail EXCEPT ![o] = 0]

\* A worker that takes a job whatever its state, an active one included.
StartAny(o) ==
    /\ o \in DOMAIN jobs
    /\ jobs[o].state # "completed"
    /\ HasCapacity(Cardinality(Active))
    /\ jobs' = [jobs EXCEPT ![o].state = "active", ![o].delay = 0,
                            ![o].attemptsStarted = @ + 1]
    /\ proc' = [j \in Active \cup {o} |->
                  IF j = o THEN [pc |-> "updRouting", route |-> NULL, result |-> NULL]
                  ELSE proc[j]]
    /\ sinceFail' = [sinceFail EXCEPT ![o] = 0]
    /\ UNCHANGED <<store, intakeVars, registryVars, timers, published, abstractVars>>

\* The worker takes a waiting job, or a delayed one whose delay has elapsed,
\* while it has capacity; processOrder runs to its first await,
\* updateOrder(orderId, {status: 'routing'}).
Start(o) ==
    /\ o \in DOMAIN jobs
    /\ \/ jobs[o].state = "wait"
       \/ jobs[o].state = "delayed" /\ jobs[o].delay = 0
    /\ HasCapacity(Cardinality(Active))
    /\ jobs' = [jobs EXCEPT ![o].state = "active", ![o].delay = 0,
                            ![o].attemptsStarted = @ + 1]
    /\ proc' = [j \in Active \cup {o} |->
                  IF j = o THEN [pc |-> "updRouting", route |-> NULL, result |-> NULL]
                  ELSE proc[j]]
    /\ sinceFail' = [sinceFail EXCEPT ![o] = 0]
    /\ UNCHANGED <<store, intakeVars, registryVars, timers, published, abstractVars>>

\* Updates whose first write of an attempt skips routing.
PendingUpdatesSkip(p) ==
    CASE p.pc = "updRouting"   -> [NoUpdates EXCEPT !.status = Some("building")]
      [] p.pc = "updBuilding"  -> [NoUpdates EXCEPT !.status = Some("building"),
                                                    !.dexUsed = Some(p.route[1].selectedDex)]
      [] p.pc = "updSubmitted" -> [NoUpdates EXCEPT !.status = Some("submitted")]
      [] p.pc = "updConfirmed" -> [NoUpdates EXCEPT
                                     !.status = Some("confirmed"),
                                     !.executedPrice = p.result[1].executedPrice,
                                     !.amountOut = p.result[1].amountOut,
                                     !.txHash = p.result[1].txHash]

\* Updates whose STEP 3 write repeats the status of STEP 2.
PendingUpdatesStale(p) ==
    CASE p.pc = "updRouting"   -> [NoUpdates EXCEPT !.status = Some("routing")]
      [] p.pc = "updBuilding"  -> [NoUpdates EXCEPT !.status = Some("building"),
                                                    !.dexUsed = Some(p.route[1].selectedDex)]
      [] p.pc = "updSubmitted" -> [NoUpdates EXCEPT !.status = Some("building")]
      [] p.pc = "updConfirmed" -> [NoUpdates EXCEPT
                                     !.status = Some("confirmed"),
                                     !.executedPrice = p.result[1].executedPrice,
                                     !.amountOut = p.result[1].amountOut,
                                     !.txHash = p.result[1].txHash]

\* Updates whose STEP 2 write leaves dexUsed out.
PendingUpdatesNoDex(p) ==
    CASE p.pc = "updRouting"   -> [NoUpdates EXCEPT !.status = Some("routing")]
      [] p.pc = "updBuilding"  -> [NoUpdates EXCEPT !.status = Some("building")]
      [] p.pc = "updSubmitted" -> [NoUpdates EXCEPT !.status = Some("submitted")]
      [] p.pc = "updConfirmed" -> [NoUpdates EXCEPT
                                     !.status = Some("confirmed"),
                                     !.executedPrice = p.result[1].executedPrice,
                                     !.amountOut = p.result[1].amountOut,
                                     !.txHash = p.result[1].txHash]

\* The updates of the updateOrder call a processOrder activity is awaiting.
PendingUpdates(p) ==
    CASE p.pc = "updRouting"   -> [NoUpdates EXCEPT !.status = Some("routing")]
      [] p.pc = "updBuilding"  -> [NoUpdates EXCEPT !.status = Some("building"),
                                                    !.dexUsed = Some(p.route[1].selectedDex)]
      [] p.pc = "updSubmitted" -> [NoUpdates EXCEPT !.status = Some("submitted")]
      [] p.pc = "updConfirmed" -> [NoUpdates EXCEPT
                                     !.status = Some("confirmed"),
                                     !.executedPrice = p.result[1].executedPrice,
                                     !.amountOut = p.result[1].amountOut,
                                     !.txHash = p.result[1].txHash]

UpdatePcs == {"updRouting", "updBuilding", "updSubmitted", "updConfirmed"}

\* A processOrder whose STEP 2 goes on at STEP 3's sendUpdate.
WrittenSkipsBuilding(pc) ==
    CASE pc = "updRouting"   -> "routingWritten"
      [] pc = "updBuilding"  -> "submittedWritten"
      [] pc = "updSubmitted" -> "submittedWritten"
      [] pc = "updConfirmed" -> "confirmedWritten"

\* Where processOrder stands once the awaited updateOrder has resolved.
Written(pc) ==
    CASE pc = "updRouting"   -> "routingWritten"
      [] pc = "updBuilding"  -> "buildingWritten"
      [] pc = "updSubmitted" -> "submittedWritten"
      [] pc = "updConfirmed" -> "confirmedWritten"

\* The store executes the UPDATE of an awaited updateOrder call.
UpdateOrderDone(o) ==
    /\ o \in Active
    /\ proc[o].pc \in UpdatePcs
    /\ store' = updateOrder(store, o, PendingUpdates(proc[o]))
    /\ proc' = [proc EXCEPT ![o].pc = Written(proc[o].pc)]
    /\ UNCHANGED <<jobs, intakeVars, registryVars, timers, published, sinceFail,
                   abstractVars>>

\* An awaited updateOrder call rejects (a store error): nothing is written
\* and the catch block runs.
UpdateOrderRejects(o) ==
    /\ o \in Active
    /\ proc[o].pc \in UpdatePcs
    /\ Catch(o, "store error")
    /\ UNCHANGED <<intakeVars, abstractVars>>

\* STEP 1 continues: sendUpdate('routing'), then getBestRoute is awaited.
AfterRouting(o) ==
    /\ o \in Active
    /\ proc[o].pc = "routingWritten"
    /\ Publish(o, "routing", NULL)
    /\ proc' = [proc EXCEPT ![o].pc = "getBestRoute"]
    /\ UNCHANGED <<store, jobs, intakeVars, timers, sinceFail, abstractVars>>

\* getBestRoute resolves; STEP 2 calls updateOrder({status: 'building', dexUsed}).
GetBestRouteDone(o) ==
    /\ o \in Active
    /\ proc[o].pc = "getBestRoute"
    /\ LET actualTokenIn == ActualToken(jobs[o].data.tokenIn)
           actualTokenOut == ActualToken(jobs[o].data.tokenOut)
       IN  \E rq \in getRaydiumQuote(actualTokenIn, actualTokenOut,
                                      jobs[o].data.amountIn),
              mq \in getMeteorQuote(actualTokenIn, actualTokenOut,
                                    jobs[o].data.amountIn) :
              proc' = [proc EXCEPT ![o].pc = "updBuilding",
                                   ![o].route = Some(getBestRoute(rq, mq))]
    /\ UNCHANGED <<store, jobs, intakeVars, registryVars, timers, published, sinceFail,
                   abstractVars>>

\* STEP 2 continues: sendUpdate('building', {dexUsed}), then the 500 ms sleep.
AfterBuilding(o) ==
    /\ o \in Active
    /\ proc[o].pc = "buildingWritten"
    /\ Publish(o, "building", Some([dexUsed |-> proc[o].route[1].selectedDex]))
    /\ proc' = [proc EXCEPT ![o].pc = "sleep"]
    /\ UNCHANGED <<store, jobs, intakeVars, timers, sinceFail, abstractVars>>

\* The sleep ends; STEP 3 calls updateOrder({status: 'submitted'}).
SleepDone(o) ==
    /\ o \in Active
    /\ proc[o].pc = "sleep"
    /\ proc' = [proc EXCEPT ![o].pc = "updSubmitted"]
    /\ UNCHANGED <<store, jobs, intakeVars, registryVars, timers, published, sinceFail,
                   abstractVars>>

\* STEP 3 continues: sendUpdate('submitted'), then executeSwap is awaited.
AfterSubmitted(o) ==
    /\ o \in Active
    /\ proc[o].pc = "submittedWritten"
    /\ Publish(o, "submitted", NULL)
    /\ proc' = [proc EXCEPT ![o].pc = "executeSwap"]
    /\ UNCHANGED <<store, jobs, intakeVars, timers, sinceFail, abstractVars>>

\* A processOrder that goes on to STEP 4 with whatever executeSwap returned.
ExecuteSwapDoneUnchecked(o) ==
    /\ o \in Active
    /\ proc[o].pc = "executeSwap"
    /\ \E result \in executeSwap(<<o, jobs[o].attemptsMade>>, jobs[o].data.amountIn,
                                 proc[o].route[1].quote.amountOut,
                                 IF jobs[o].data.slippage = 0 THEN DefaultSlippage
                                 ELSE jobs[o].data.slippage) :
          /\ proc' = [proc EXCEPT ![o].pc = "updConfirmed", ![o].result = Some(result)]
          /\ UNCHANGED <<store, jobs, registryVars, timers, published, sinceFail>>
    /\ UNCHANGED <<intakeVars, abstractVars>>

\* executeSwap resolves: a result without success is thrown into the catch
\* block, a success leads to STEP 4's updateOrder({status: 'confirmed', ...}).
ExecuteSwapDone(o) ==
    /\ o \in Active
    /\ proc[o].pc = "executeSwap"
    /\ \E result \in executeSwap(<<o, jobs[o].attemptsMade>>, jobs[o].data.amountIn,
                                 proc[o].route[1].quote.amountOut,
                                 IF jobs[o].data.slippage = 0 THEN DefaultSlippage
                                 ELSE jobs[o].data.slippage) :
          IF ~result.success
          THEN Catch(o, result.error[1])
          ELSE /\ proc' = [proc EXCEPT ![o].pc = "updConfirmed",
                                       ![o].result = Some(result)]
               /\ UNCHANGED <<store, jobs, registryVars, timers, published, sinceFail>>
    /\ UNCHANGED <<intakeVars, abstractVars>>

\* A STEP 4 after which the queue puts the job back to wait.
AfterConfirmedRequeues(o) ==
    /\ o \in Active
    /\ proc[o].pc = "confirmedWritten"
    /\ Publish(o, "confirmed",
               Some([txHash |-> proc[o].result[1].txHash,
                     executedPrice |-> proc[o].result[1].executedPrice,
                     amountOut |-> proc[o].result[1].amountOut,
                     dexUsed |-> proc[o].route[1].selectedDex]))
    /\ setTimeoutClose(o)
    /\ jobs' = [jobs EXCEPT ![o].state = "wait", ![o].attemptsMade = @ + 1]
    /\ Release(o)
    /\ UNCHANGED <<store, intakeVars, sinceFail, abstractVars>>

\* STEP 4 continues: sendUpdate('confirmed', ...) and the close timer;
\* processOrder returns and the queue completes the job.
AfterConfirmed(o) ==
    /\ o \in Active
    /\ proc[o].pc = "confirmedWritten"
    /\ Publish(o, "confirmed",
               Some([txHash |-> proc[o].result[1].txHash,
                     executedPrice |-> proc[o].result[1].executedPrice,
                     amountOut |-> proc[o].result[1].amountOut,
                     dexUsed |-> proc[o].route[1].selectedDex]))
    /\ setTimeoutClose(o)
    /\ jobs' = [jobs EXCEPT ![o].state = "completed"]
    /\ Release(o)
    /\ UNCHANGED <<store, intakeVars, sinceFail, abstractVars>>

\* One step of the processOrder activity of job o while the store executes
\* every update.
StoreUpStep(o) ==
    \/ UpdateOrderDone(o) \/ AfterRouting(o)
    \/ GetBestRouteDone(o) \/ AfterBuilding(o) \/ SleepDone(o)
    \/ AfterSubmitted(o) \/ ExecuteSwapDone(o) \/ AfterConfirmed(o)

\* One step of the processOrder activity of job o.
WorkerStep(o) == StoreUpStep(o) \/ UpdateOrderRejects(o)

\* -------------------------------------------------------------------- time

\* The step of the clock, and the longest backoff (beyond which sinceFail is
\* not counted).
TickMs == BackoffDelay
MaxElapsed == Backoff(Attempts - 1)

\* TickMs milliseconds pass: the delays of the delayed jobs run down.
Tick ==
    /\ \E o \in DOMAIN jobs :
          jobs[o].state = "delayed" /\ (jobs[o].delay > 0 \/ sinceFail[o] < MaxElapsed)
    /\ jobs' = [o \in DOMAIN jobs |->
                  IF jobs[o].state = "delayed" /\ jobs[o].delay > 0
                  THEN [jobs[o] EXCEPT !.delay = IF @ > TickMs THEN @ - TickMs ELSE 0]
                  ELSE jobs[o]]
    /\ sinceFail' = [o \in OrderIds |->
                       IF o \in DOMAIN jobs /\ jobs[o].state = "delayed"
                          /\ sinceFail[o] < MaxElapsed
                       THEN sinceFail[o] + TickMs
                       ELSE sinceFail[o]]
    /\ UNCHANGED <<store, proc, intakeVars, registryVars, timers, published,
                   abstractVars>>

\* -------------------------------------------------------------------- pool
\* The worker pool with more orders than Concurrency.  Orders of one class
\* (job state, attemptsMade, stored status) are counted, not told apart.  An
\* attempt is two steps, its start (with the write of 'routing') and its
\* end; the statuses building and submitted of a running attempt count with
\* routing, and an attempt fails in executeSwap, with status submitted.

PoolOrders == Concurrency + PoolExtra

PoolWait == <<"wait", 0, "pending">>
PoolActive(a) == <<"active", a, "routing">>
PoolCompleted == <<"completed", 0, "confirmed">>

\* The class of a job whose attempt failed with attemptsMade = a before it:
\* the catch block persists 'failed' on a final attempt only.
PoolThrown(a) ==
    <<RetryState(a + 1), a + 1, IF isFinalAttempt(a) THEN "failed" ELSE "submitted">>

PoolClasses ==
    {PoolWait, PoolCompleted}
    \cup {PoolActive(a) : a \in 0..(Attempts - 1)}
    \cup {<<st, a, status>> : st \in {"delayed", "failed"}, a \in 1..Attempts,
                              status \in {"submitted", "failed"}}

RECURSIVE PoolSum(_)
PoolSum(classes) ==
    IF classes = {} THEN 0
    ELSE LET c == CHOOSE x \in classes : TRUE
         IN  pool[c] + PoolSum(classes \ {c})

PoolActiveCount == PoolSum({c \in PoolClasses : c[1] = "active"})

PoolMove(from, to) ==
    pool' = [c \in PoolClasses |->
               IF c = from /\ c = to THEN pool[c]
               ELSE IF c = from THEN pool[c] - 1
               ELSE IF c = to THEN pool[c] + 1
               ELSE pool[c]]

PoolFrame ==
    UNCHANGED <<store, jobs, proc, intakeVars, registryVars, timers, published,
                sinceFail, limiter, lifecycle>>

\* An order is accepted, saved and queued.
PoolAdd ==
    /\ PoolSum(PoolClasses) < PoolOrders
    /\ pool' = [pool EXCEPT ![PoolWait] = @ + 1]
    /\ PoolFrame

\* The worker takes a waiting or delayed job while it has capacity.
PoolStart(c) ==
    /\ c[1] \in {"wait", "delayed"}
    /\ pool[c] > 0
    /\ HasCapacity(PoolActiveCount)
    /\ PoolMove(c, PoolActive(c[2]))
    /\ PoolFrame

\* An attempt ends with 'confirmed' written and the job completed.
PoolConfirm(a) ==
    /\ pool[PoolActive(a)] > 0
    /\ PoolMove(PoolActive(a), PoolCompleted)
    /\ PoolFrame

\* An attempt ends with executeSwap failing: the job is delayed or failed.
PoolFail(a) ==
    /\ pool[PoolActive(a)] > 0
    /\ PoolMove(PoolActive(a), PoolThrown(a))
    /\ PoolFrame

\* ----------------------------------------------------------------- limiter
\* The worker's limiter {max, duration} as the queue keeps it: a counter key
\* that the first job start of a window creates with an expiry of
\* LimiterDuration, that every further start increments, and that stops
\* starts once it holds LimiterMax.  Time advances in steps of half a
\* duration; cur and prev count the job starts of the present step and of
\* the one before, which together are the starts of the last LimiterDuration.

LimiterTick == LimiterDuration \div 2

LimiterFrame ==
    UNCHANGED <<store, jobs, proc, intakeVars, registryVars, timers, published,
                sinceFail, pool, lifecycle>>

\* The limiter admits a start while its key holds less than max.
\* A limiter that admits one start more.
LimiterAdmitsOff(count) == count <= LimiterMax
LimiterAdmits(count) == count < LimiterMax

\* A job start (an attempt of any job) under the limiter.
LimiterStart ==
    /\ LimiterAdmits(limiter.count)
    /\ limiter' = [limiter EXCEPT
                     !.count = @ + 1,
                     !.ttl = IF limiter.count = 0 THEN LimiterDuration ELSE @,
                     !.cur = @ + 1]
    /\ LimiterFrame

\* LimiterTick milliseconds pass; a key whose expiry is reached is deleted.
LimiterTime ==
    /\ limiter' = [count |-> IF limiter.ttl <= LimiterTick THEN 0 ELSE limiter.count,
                   ttl   |-> IF limiter.ttl <= LimiterTick THEN 0
                             ELSE limiter.ttl - LimiterTick,
                   prev  |-> limiter.cur,
                   cur   |-> 0]
    /\ LimiterFrame

\* --------------------------------------------------------------- lifecycle
\* The signals with a handler: shutdown() of index.ts on both, the worker
\* module's own handler on SIGTERM only.
Signals == {"SIGINT", "SIGTERM"}

Alive == ~lifecycle.exited

\* The updateOrder calls the worker is awaiting: queries handed to the pool.
QueriesInFlight ==
    {<<o, jobs[o].attemptsStarted, proc[o].pc>> :
        o \in {j \in Active : proc[j].pc \in UpdatePcs}}

\* pool.query after pool.end() was called rejects; a query handed to the
\* pool before that is still executed.
PoolExecutes(o) ==
    \/ lifecycle.shutdown = "idle"
    \/ lifecycle.shutdown = "closeServer"
    \/ <<o, jobs[o].attemptsStarted, proc[o].pc>> \in lifecycle.queries

LifecycleFrame ==
    UNCHANGED <<store, jobs, proc, intakeVars, registryVars, timers, published,
                sinceFail, pool, limiter>>

\* The process receives a signal: every handler registered for it starts
\* and runs to its first await, orderWorker.close() in the worker module
\* (SIGTERM), fastify.close() in shutdown().
SignalReceived(sig) ==
    /\ Alive
    /\ lifecycle.signal = "none"
    /\ lifecycle' = [lifecycle EXCEPT
                        !.signal = sig,
                        !.shutdown = "closeServer",
                        !.worker = IF sig = "SIGTERM" THEN "closeWorker" ELSE "idle"]
    /\ LifecycleFrame

\* fastify.close() resolves once the requests being served are answered;
\* shutdown() calls pool.end().
FastifyClosed ==
    /\ Alive
    /\ lifecycle.shutdown = "closeServer"
    /\ \A o \in DOMAIN http : http[o].pc = "replied"
    /\ lifecycle' = [lifecycle EXCEPT !.shutdown = "poolEnd",
                                      !.queries = QueriesInFlight]
    /\ LifecycleFrame

\* pool.end() resolves once the queries handed to the pool have finished;
\* shutdown() calls process.exit(0).
PoolEnded ==
    /\ Alive
    /\ lifecycle.shutdown = "poolEnd"
    /\ lifecycle.queries \cap QueriesInFlight = {}
    /\ lifecycle' = [lifecycle EXCEPT !.shutdown = "done", !.exited = TRUE]
    /\ LifecycleFrame

\* orderWorker.close() resolves once no job is being processed; the worker
\* module's handler closes the queue and calls process.exit(0).
WorkerClosed ==
    /\ Alive
    /\ lifecycle.worker = "closeWorker"
    /\ Active = {}
    /\ lifecycle' = [lifecycle EXCEPT !.worker = "done", !.exited = TRUE]
    /\ LifecycleFrame

\* The steps of the program while the process lives: the server accepts
\* requests until a signal arrives, the worker takes jobs until
\* orderWorker.close() is called.
AlivePost(body) ==
    Alive /\ lifecycle.signal = "none" /\ DOMAIN http = {} /\ Post(body)
AliveSaveOrderDone(o) == Alive /\ SaveOrderDone(o)
AliveQueueAddDone(o) == Alive /\ QueueAddDone(o)
AliveStart(o) == Alive /\ lifecycle.worker = "idle" /\ Start(o)
AliveUpdateOrderDone(o) ==
    Alive /\ o \in Active /\ PoolExecutes(o) /\ UpdateOrderDone(o)
AliveUpdateOrderRejects(o) == Alive /\ UpdateOrderRejects(o)
AliveStep(o) ==
    /\ Alive
    /\ \/ AfterRouting(o) \/ GetBestRouteDone(o) \/ AfterBuilding(o) \/ SleepDone(o)
       \/ AfterSubmitted(o) \/ ExecuteSwapDone(o) \/ AfterConfirmed(o)
AliveCloseTimerFires(o) == Alive /\ CloseTimerFires(o)
AliveTick == Alive /\ Tick

\* ---------------------------------------------------------- specifications

Init ==
    /\ store = <<>>
    /\ jobs = <<>>
    /\ proc = <<>>
    /\ http = <<>>
    /\ reply400 = NULL
    /\ connections = <<>>
    /\ sockets = <<>>
    /\ timers = [o \in OrderIds |-> 0]
    /\ published = [o \in OrderIds |-> "none"]
    /\ sinceFail = [o \in OrderIds |-> 0]
    /\ pool = [c \in PoolClasses |-> 0]
    /\ limiter = [count |-> 0, ttl |-> 0, prev |-> 0, cur |-> 0]
    /\ lifecycle = [signal |-> "none", shutdown |-> "idle", worker |-> "idle",
                    queries |-> {}, exited |-> FALSE]

\* The request bodies of Spec: the valid ones that leave slippage to its
\* default or set it to 2.0.
Workload ==
    {b \in Bodies : ValidationError(b) = NoError
                      /\ (b.slippage = NULL \/ b.slippage = Some(200 * DefaultSlippage))}

NextIntake ==
    \/ \E body \in Bodies : Post(body)
    \/ \E o \in OrderIds : SaveOrderDone(o)
    \/ \E o \in OrderIds : QueueAddDone(o)

Next ==
    \/ \E body \in Workload : Post(body)
    \/ \E o \in OrderIds : SaveOrderDone(o)
    \/ \E o \in OrderIds : QueueAddDone(o)
    \/ \E o \in OrderIds : Start(o)
    \/ \E o \in OrderIds : WorkerStep(o)
    \/ \E o \in OrderIds : CloseTimerFires(o)
    \/ Tick

\* Next with a store that executes every update of the worker: the only
\* failure of an attempt is the one executeSwap throws.
NextStoreUp ==
    \/ \E body \in Workload : Post(body)
    \/ \E o \in OrderIds : SaveOrderDone(o)
    \/ \E o \in OrderIds : QueueAddDone(o)
    \/ \E o \in OrderIds : Start(o)
    \/ \E o \in OrderIds : StoreUpStep(o)
    \/ \E o \in OrderIds : CloseTimerFires(o)
    \/ Tick

\* POST /api/orders/execute, for the first order only.
PostFirst(body) == DOMAIN http = {} /\ Post(body)

\* The life of one accepted order with clients that open and close streams,
\* for that order and for ids the store does not know.
\* GET /api/orders/:orderId/stream, for the first MaxStreamSockets sockets.
StreamOpenBounded(o) ==
    Cardinality(DOMAIN sockets) < MaxStreamSockets /\ StreamOpen(o)

NextStream ==
    \/ \E body \in Workload : PostFirst(body)
    \/ \E o \in OrderIds : SaveOrderDone(o)
    \/ \E o \in OrderIds : QueueAddDone(o)
    \/ \E o \in OrderIds : Start(o)
    \/ \E o \in OrderIds : StoreUpStep(o)
    \/ \E o \in OrderIds : CloseTimerFires(o)
    \/ Tick
    \/ \E o \in OrderIds : StreamOpenBounded(o)
    \/ \E k \in SocketIds : StreamGetOrderDone(k)
    \/ \E k \in SocketIds : StreamGetOrderRejects(k)
    \/ \E k \in SocketIds : ClientCloses(k)
    \/ \E k \in SocketIds : SocketCloseEvent(k)

NextPool ==
    \/ PoolAdd
    \/ \E c \in PoolClasses : PoolStart(c)
    \/ \E a \in 0..(Attempts - 1) : PoolConfirm(a)
    \/ \E a \in 0..(Attempts - 1) : PoolFail(a)

NextLimiter == LimiterStart \/ LimiterTime

IntakeSpec == Init /\ [][NextIntake]_vars

Spec == Init /\ [][Next]_vars

\* The store executes every update of the worker, the event loop runs every
\* continuation that is ready, the router answers every call, the queue
\* takes every job that may start, and time passes.
FairSpec ==
    /\ Init /\ [][NextStoreUp]_vars
    /\ \A o \in OrderIds :
          /\ WF_vars(SaveOrderDone(o))
          /\ WF_vars(QueueAddDone(o))
          /\ WF_vars(Start(o))
          /\ WF_vars(StoreUpStep(o))
          /\ WF_vars(CloseTimerFires(o))
    /\ WF_vars(Tick)

StreamSpec == Init /\ [][NextStream]_vars

NextRegistry ==
    \/ \E body \in Workload : PostFirst(body)
    \/ \E o \in OrderIds : SaveOrderDone(o)
    \/ \E o \in OrderIds : StreamOpen(o)
    \/ \E k \in SocketIds : StreamGetOrderDone(k)
    \/ \E k \in SocketIds : StreamGetOrderRejects(k)
    \/ \E k \in SocketIds : ClientCloses(k)
    \/ \E k \in SocketIds : SocketCloseEvent(k)

RegistrySpec == Init /\ [][NextRegistry]_vars

\* orderQueue.add of the first MaxFanoutJobs orders: the later orders stay
\* saved with their request still being served.
QueueAddBounded(o) ==
    Cardinality(DOMAIN jobs) < MaxFanoutJobs /\ QueueAddDone(o)

\* Two saved orders, a stream socket for each kept open by its client, and
\* the worker processing the queued one; the store executes every update.
NextFanout ==
    \/ \E body \in {b \in Workload : b.slippage = NULL} : Post(body)
    \/ \E o \in OrderIds : SaveOrderDone(o)
    \/ \E o \in OrderIds : QueueAddBounded(o)
    \/ \E o \in OrderIds : Start(o)
    \/ \E o \in OrderIds : StoreUpStep(o)
    \/ \E o \in OrderIds : CloseTimerFires(o)
    \/ \E o \in OrderIds : StreamOpen(o)
    \/ \E k \in SocketIds : StreamGetOrderDone(k)
    \/ \E k \in SocketIds : SocketCloseEvent(k)

FanoutSpec == Init /\ [][NextFanout]_vars

NextShutdown ==
    \/ \E body \in Workload : AlivePost(body)
    \/ \E o \in OrderIds : AliveSaveOrderDone(o)
    \/ \E o \in OrderIds : AliveQueueAddDone(o)
    \/ \E o \in OrderIds : AliveStart(o)
    \/ \E o \in OrderIds : AliveUpdateOrderDone(o)
    \/ \E o \in OrderIds : AliveUpdateOrderRejects(o)
    \/ \E o \in OrderIds : AliveStep(o)
    \/ \E o \in OrderIds : AliveCloseTimerFires(o)
    \/ AliveTick
    \/ \E sig \in Signals : SignalReceived(sig)
    \/ FastifyClosed
    \/ PoolEnded
    \/ WorkerClosed

ShutdownSpec == Init /\ [][NextShutdown]_vars

\* StreamSpec where the server side runs: the store answers, the event loop
\* runs every handler, continuation, timer and 'close' event that is ready,
\* and time passes.  Clients stay free to open and close sockets or not.
FairStreamSpec ==
    /\ StreamSpec
    /\ \A o \in OrderIds :
          /\ WF_vars(SaveOrderDone(o))
          /\ WF_vars(QueueAddDone(o))
          /\ WF_vars(Start(o))
          /\ WF_vars(StoreUpStep(o))
          /\ WF_vars(CloseTimerFires(o))
    /\ \A k \in SocketIds :
          /\ WF_vars(StreamGetOrderDone(k))
          /\ WF_vars(SocketCloseEvent(k))
    /\ WF_vars(Tick)

PoolSpec == Init /\ [][NextPool]_vars

LimiterSpec == Init /\ [][NextLimiter]_vars

\* ------------------------------------------------------------------ claims

Terminal == {"confirmed", "failed"}
InFlight == {"routing", "building", "submitted"}
StatusChain == <<"pending", "routing", "building", "submitted", "confirmed">>

\* C1: when the last permitted attempt of a job has failed (the queue holds
\* the job as failed), the order's stored status is failed, its error is not
\* null and the worker has published a failed frame.
C1_FinalFailurePersisted ==
    \A o \in DOMAIN jobs :
        jobs[o].state = "failed" =>
            /\ store[o].status = "failed"
            /\ store[o].error # NULL
            /\ published[o] = "failed"

\* C2: under fair scheduling every order that intake answered with 201
\* eventually has stored status confirmed or failed.
C2_EventuallyTerminal ==
    \A o \in OrderIds :
        [](o \in DOMAIN http /\ http[o].code = 201
             => <>(o \in DOMAIN store /\ store[o].status \in Terminal))

\* A change of stored status from a to b that follows the chain, or goes to
\* failed from a non-terminal status.
Advances(a, b) ==
    \/ \E i \in 1..(Len(StatusChain) - 1) : StatusChain[i] = a /\ StatusChain[i + 1] = b
    \/ a \notin Terminal /\ b = "failed"

\* C3 (as claimed): every change of an order's stored status moves it to the
\* next state of the chain, or to failed from a non-terminal state.
C3_NeverBackwards ==
    [][\A o \in DOMAIN store :
          store'[o].status # store[o].status
              => Advances(store[o].status, store'[o].status)]_vars

\* C3 (amended): every change of an order's stored status moves it to the
\* next state of the chain or to failed from a non-terminal state, except
\* the first write of a retry, which takes it back from building or
\* submitted to routing.
C3_ForwardWithinAttempt ==
    [][\A o \in DOMAIN store :
          store'[o].status # store[o].status
              => \/ Advances(store[o].status, store'[o].status)
                 \/ /\ store'[o].status = "routing"
                    /\ store[o].status \in {"building", "submitted"}
                    /\ jobs[o].attemptsMade >= 1
                    /\ proc[o].pc = "updRouting"]_vars

\* A retry has taken the status of an order that had been building back to routing.
C3_RetryReset ==
    \E o \in DOMAIN store : store[o].status = "routing" /\ store[o].dexUsed # NULL

\* C4: processOrder is started at most Attempts times for an order.
C4_AtMostThreeAttempts ==
    \A o \in DOMAIN jobs : jobs[o].attemptsStarted <= Attempts

\* An order has failed after Attempts starts.
C4_ThreeAttemptsUsed ==
    \E o \in DOMAIN jobs : jobs[o].state = "failed" /\ jobs[o].attemptsStarted = Attempts

\* C5: at most Concurrency jobs are active at any instant.
C5_BoundedConcurrency == PoolActiveCount <= Concurrency

\* Concurrency jobs are active while another job waits.
C5_PoolFull == PoolActiveCount = Concurrency /\ pool[PoolWait] > 0

\* The number of rows whose status is routing, building or submitted, over
\* all orders and over the orders whose job is active.
PoolRowsInFlight == PoolSum({c \in PoolClasses : c[3] \in InFlight})
PoolActiveRowsInFlight ==
    PoolSum({c \in PoolClasses : c[1] = "active" /\ c[3] \in InFlight})

\* C6 (as claimed): at most Concurrency rows have status routing, building
\* or submitted, the orders waiting for a retry included.
C6_RowsInFlightBounded == PoolRowsInFlight <= Concurrency

\* C6 (amended): at most Concurrency rows of orders whose job is active have
\* status routing, building or submitted.
C6_ActiveRowsInFlightBounded == PoolActiveRowsInFlight <= Concurrency

\* Concurrency active rows in flight, and more rows in flight in all.
C6_FullWithRetryWaiting ==
    PoolActiveRowsInFlight = Concurrency /\ PoolRowsInFlight > Concurrency

C8_BackoffRespected ==
    [][\A o \in DOMAIN jobs :
          jobs[o].state = "delayed" /\ jobs'[o].state = "active"
              => sinceFail[o] >= BackoffDelay * 2 ^ (jobs[o].attemptsMade - 1)]_vars

\* The third attempt of an order is running (after both backoffs).
C8_ThirdAttemptRunning ==
    \E o \in DOMAIN jobs : jobs[o].state = "active" /\ jobs[o].attemptsMade = Attempts - 1

\* The bodies the claim names: a required field missing, an order type
\* other than market, or an amount that is not positive.
C9_Invalid(body) ==
    \/ body.tokenIn = NULL \/ body.tokenOut = NULL \/ body.amountIn = NULL
    \/ body.orderType # Some("market")
    \/ body.amountIn[1] <= 0

\* C9: an invalid body is refused by validation (the bodies are gone through
\* while no request has been accepted yet), no order is ever built from one,
\* and a step that replies 400 leaves the store, the queue and the accepted
\* requests as they were.
C9_RejectLeavesNoTrace ==
    [][/\ DOMAIN http = {} =>
             \A body \in Bodies : C9_Invalid(body) => ValidationError(body) # NoError
       /\ \A o \in DOMAIN http' \ DOMAIN http :
             /\ http'[o].order.orderType = "market"
             /\ http'[o].order.amountIn > 0
       /\ reply400' # reply400 => UNCHANGED <<store, jobs, http>>]_vars

\* A 400 for a non-positive amount was sent after an order had been saved
\* and queued.
C9_RejectedAfterAccept ==
    /\ reply400 # NULL
    /\ reply400[1].error = "Amount must be greater than 0"
    /\ DOMAIN store # {}
    /\ DOMAIN jobs # {}

\* C10: a request is saved (as pending) before it is queued, the job carries
\* the order id, 201 is sent only with both the row and the job in place,
\* and a request whose save failed is answered 500 with no job.
C10_SaveThenEnqueue ==
    \A o \in DOMAIN http :
        /\ http[o].pc = "saveOrder" => o \notin DOMAIN store /\ o \notin DOMAIN jobs
        /\ http[o].pc = "add" =>
              o \in DOMAIN store /\ store[o].status = "pending" /\ o \notin DOMAIN jobs
        /\ o \in DOMAIN jobs => o \in DOMAIN store /\ jobs[o].data.orderId = o
        /\ http[o].code = 201 => o \in DOMAIN store /\ o \in DOMAIN jobs
        /\ http[o].pc = "replied" /\ o \notin DOMAIN store =>
              http[o].code = 500 /\ o \notin DOMAIN jobs

\* One request was answered 201, another 500 after its save failed.
C10_AcceptedAndSaveFailed ==
    \E o, p \in DOMAIN http :
        /\ http[o].code = 201
        /\ http[p].code = 500 /\ p \notin DOMAIN store

\* The frames of socket k that sendUpdate sent with a terminal status.
TerminalFrames(k) ==
    {i \in DOMAIN sockets[k].frames :
        /\ sockets[k].frames[i].kind = "update"
        /\ sockets[k].frames[i].status \in Terminal}

\* C11: a socket opened for an order whose stored status was already
\* confirmed or failed never carries a second terminal frame.
C11_OneTerminalFrame ==
    \A k \in DOMAIN sockets :
        sockets[k].opened \in Terminal => Cardinality(TerminalFrames(k)) <= 1

\* The positions of processOrder at which its next step is a sendUpdate call.
PublishPcs == {"routingWritten", "buildingWritten", "submittedWritten", "confirmedWritten"}

\* C12: a sendUpdate of the worker for an order without a registered socket
\* leaves the registry (connections and sockets) as it was, and the worker
\* goes on: the attempt is not failed by it.
C12_SilentNoOp ==
    [][\A o \in DOMAIN proc :
          /\ proc[o].pc \in PublishPcs
          /\ published'[o] # published[o] \/ o \notin DOMAIN proc' \/ proc'[o] # proc[o]
          /\ o \notin DOMAIN connections
          => /\ UNCHANGED registryVars
             /\ jobs'[o].attemptsMade = jobs[o].attemptsMade
             /\ jobs'[o].state \in {"active", "completed"}]_vars

\* The worker published routing for an order whose only socket, opened
\* before, is not registered yet.
C12_PublishedWithoutSocket ==
    \E o \in DOMAIN store, k \in DOMAIN sockets :
        /\ sockets[k].orderId = o /\ sockets[k].opened = "pending"
        /\ sockets[k].pc = "getOrder" /\ sockets[k].readyState = "open"
        /\ o \notin DOMAIN connections
        /\ published[o] = "routing"

\* Every route a running attempt holds names the dex of its quote, and the
\* dex tieDex when the two quotes were equal.
RoutesHeld(tieDex) ==
    \A o \in Active :
        proc[o].route # NULL =>
            /\ proc[o].route[1].selectedDex = proc[o].route[1].quote.dex
            /\ proc[o].route[1].reason.difference = 0
                  => proc[o].route[1].selectedDex = tieDex

\* C13 (as claimed): the route getBestRoute returned names the dex of its
\* quote, and raydium when the two amountOut values were equal.
C13_TieSelectsRaydium == RoutesHeld("raydium")

\* C13 (amended): getBestRoute returns the quote with the larger amountOut
\* of the raydium and meteora quotes, selectedDex is that quote's dex, and
\* when the two amountOut values are equal it selects meteora.
C13_TieSelectsMeteora ==
    /\ \A rq \in RaydiumQuotes, mq \in MeteoraQuotes :
          LET route == getBestRoute(rq, mq)
          IN  /\ route.quote \in {rq, mq}
              /\ route.quote.amountOut >= rq.amountOut
              /\ route.quote.amountOut >= mq.amountOut
              /\ route.selectedDex = route.quote.dex
              /\ rq.amountOut = mq.amountOut => route.selectedDex = "meteora"
    /\ RoutesHeld("meteora")

\* An attempt holds a route selected on a tie.
C13_RouteOnTie ==
    \E o \in Active :
        /\ proc[o].route # NULL
        /\ proc[o].route[1].reason.difference = 0
        /\ proc[o].route[1].selectedDex = "meteora"

\* C14: once every attempt of an order has failed, the persisted error
\* records as many attempts as were executed, out of Attempts.
C14_AttemptsRecorded ==
    \A o \in DOMAIN jobs :
        jobs[o].state = "failed" =>
            /\ store[o].error # NULL
            /\ store[o].error[1].attempts = jobs[o].attemptsStarted
            /\ store[o].error[1].maxAttempts = Attempts

\* C15 (as claimed): once dex_used is non-null no step changes it.
C15_DexWrittenOnce ==
    [][\A o \in DOMAIN store :
          store[o].dexUsed # NULL => store'[o].dexUsed = store[o].dexUsed]_vars

\* C15 (amended): dex_used changes only by the building write of an attempt,
\* to the dex that attempt selected; once non-null it is never null again,
\* and only the building write of a retry changes its value.
C15_DexWrittenByBuilding ==
    [][\A o \in DOMAIN store :
          /\ store[o].dexUsed # NULL => store'[o].dexUsed # NULL
          /\ store'[o].dexUsed # store[o].dexUsed =>
                /\ o \in Active /\ proc[o].pc = "updBuilding"
                /\ store'[o].status = "building"
                /\ store'[o].dexUsed = Some(proc[o].route[1].selectedDex)
                /\ store[o].dexUsed # NULL => jobs[o].attemptsMade >= 1]_vars

\* A socket carries a building frame that names another dex than the one
\* the row of its order holds now.
C15_DexChangedByRetry ==
    \E k \in DOMAIN sockets :
        \E i \in DOMAIN sockets[k].frames :
            LET frame == sockets[k].frames[i]
            IN  /\ frame.kind = "update" /\ frame.status = "building"
                /\ store[frame.orderId].dexUsed # NULL
                /\ store[frame.orderId].dexUsed # Some(frame.data[1].dexUsed)

\* C16: tx_hash, executed_price and amount_out of a row are all null when
\* its status is not confirmed and all non-null when it is confirmed.
C16_ExecutionFieldsIffConfirmed ==
    \A o \in DOMAIN store :
        IF store[o].status = "confirmed"
        THEN /\ store[o].txHash # NULL
             /\ store[o].executedPrice # NULL
             /\ store[o].amountOut # NULL
        ELSE /\ store[o].txHash = NULL
             /\ store[o].executedPrice = NULL
             /\ store[o].amountOut = NULL

\* C17: the error of a row is null when its status is not failed and
\* non-null when it is failed.
C17_ErrorIffFailed ==
    \A o \in DOMAIN store :
        IF store[o].status = "failed"
        THEN store[o].error # NULL
        ELSE store[o].error = NULL

\* Every attempt of an order has failed and its row, not failed, has no error.
C17_NoErrorAfterFailures ==
    \E o \in DOMAIN jobs :
        /\ jobs[o].state = "failed"
        /\ store[o].status # "failed"
        /\ store[o].error = NULL

\* C18: the stream handler that finds no row for its order id leaves the
\* connections, the store, the queue and the workers as they were, installs
\* no handler, sends one error frame (on a socket still open) and nothing
\* else, and closes the socket.
C18_UnknownOrderNotRegistered ==
    [][\A k \in DOMAIN sockets :
          /\ sockets[k].pc = "getOrder" /\ sockets'[k].pc = "done"
          /\ sockets[k].orderId \notin DOMAIN store
          => /\ UNCHANGED <<connections, store, jobs, proc, timers>>
             /\ sockets'[k].readyState = "closed"
             /\ ~sockets'[k].handlers
             /\ Len(sockets'[k].frames) <= 1
             /\ \A i \in DOMAIN sockets'[k].frames : sockets'[k].frames[i].kind = "error"
             /\ sockets[k].readyState = "open" => Len(sockets'[k].frames) = 1]_vars

\* A stream for an unknown id was answered 'Order not found' and closed
\* while the worker was processing an order.
C18_NotFoundAnswered ==
    \E k \in DOMAIN sockets :
        /\ sockets[k].orderId \notin DOMAIN store
        /\ sockets[k].frames = <<ErrorFrame(sockets[k].orderId, NotFound)>>
        /\ sockets[k].readyState = "closed"
        /\ connections = <<>>
        /\ Active # {}

\* The updates callers pass to updateOrder.
UpdateSamples ==
    {[NoUpdates EXCEPT !.status = Some(st)] : st \in {"routing", "submitted", "confirmed"}}
    \cup {[NoUpdates EXCEPT !.status = Some("building"), !.dexUsed = Some(d)] :
             d \in {"raydium", "meteora"}}
    \cup {[NoUpdates EXCEPT !.status = Some("confirmed"), !.executedPrice = Some(10),
                            !.amountOut = Some(10), !.txHash = Some(<<1, 0>>)]}

\* C19: updateOrder for an id without a row returns the store as it was.
C19_UnknownIdNoOp ==
    \A o \in OrderIds \ DOMAIN store :
        \A updates \in UpdateSamples : updateOrder(store, o, updates) = store

\* The store holds the row of an order in progress, and an id is unknown to it.
C19_UnknownIdBesideRow ==
    /\ OrderIds \ DOMAIN store # {}
    /\ \E o \in DOMAIN store : store[o].status = "submitted"

\* C20: closeConnection (the call a close timer makes) closes the socket
\* registered for the order id and removes its entry, touching no other
\* socket; without an entry it leaves connections and sockets as they were.
C20_CloseConnection ==
    [][\A o \in OrderIds :
          timers'[o] < timers[o] =>
              IF o \in DOMAIN connections
              THEN /\ sockets'[connections[o]].readyState = "closed"
                   /\ o \notin DOMAIN connections'
                   /\ \A c \in DOMAIN connections \ {o} :
                         c \in DOMAIN connections' /\ connections'[c] = connections[c]
                   /\ \A k \in DOMAIN sockets \ {connections[o]} : sockets'[k] = sockets[k]
              ELSE UNCHANGED registryVars]_vars

\* The close timer set after the confirmed frame has fired and closed the
\* registered socket: the entry is gone and the socket's close event is
\* still to come.
C20_ClosedByTimer ==
    \E k \in DOMAIN sockets :
        /\ sockets[k].readyState = "closed" /\ sockets[k].closeEvent
        /\ sockets[k].orderId \notin DOMAIN connections
        /\ timers[sockets[k].orderId] = 0
        /\ sockets[k].frames # <<>>
        /\ sockets[k].frames[Len(sockets[k].frames)].kind = "update"
        /\ sockets[k].frames[Len(sockets[k].frames)].status = "confirmed"

\* C21: once an order's processing has ended (its job completed, or failed
\* after its last attempt), every socket registered for it is eventually
\* closed and its registry entry removed.
C21_SocketsClosedAfterEnd ==
    \A k \in SocketIds :
        [](( /\ k \in DOMAIN sockets
             /\ sockets[k].orderId \in DOMAIN jobs
             /\ jobs[sockets[k].orderId].state \in {"completed", "failed"}
             /\ sockets[k].orderId \in DOMAIN connections
             /\ connections[sockets[k].orderId] = k )
           => <>( /\ k \in DOMAIN sockets
                  /\ sockets[k].readyState = "closed"
                  /\ ~( /\ sockets[k].orderId \in DOMAIN connections
                        /\ connections[sockets[k].orderId] = k ) ))

\* The frames an attempt has published when it stands at pc.
FramesOfAttempt(pc) ==
    CASE pc \in {"updRouting", "routingWritten"} -> 0
      [] pc \in {"getBestRoute", "updBuilding", "buildingWritten"} -> 1
      [] pc \in {"sleep", "updSubmitted", "submittedWritten"} -> 2
      [] pc \in {"executeSwap", "updConfirmed", "confirmedWritten"} -> 3

\* C22: within one attempt the worker publishes routing, building,
\* submitted, confirmed in this order, each once, and while an attempt that
\* has published is running the last frame published for its order is its
\* own: no other attempt of the order publishes in between.
C22_FramesInOrder ==
    [][\A o \in OrderIds :
          /\ (o \in Active /\ FramesOfAttempt(proc[o].pc) > 0) =>
                 published[o] = StatusChain[FramesOfAttempt(proc[o].pc) + 1]
          /\ (o \in Active /\ proc[o].pc \in PublishPcs
                 /\ (o \notin Active' \/ proc'[o].pc # proc[o].pc)) =>
                 published'[o] = StatusChain[FramesOfAttempt(proc[o].pc) + 2]
          /\ published'[o] # published[o] =>
                 o \in Active /\ proc[o].pc \in PublishPcs]_vars

\* A job has completed on a retry: two attempts have published frames for
\* the same order.
C22_ConfirmedOnRetry ==
    \E o \in DOMAIN jobs :
        /\ jobs[o].state = "completed" /\ jobs[o].attemptsMade >= 1
        /\ published[o] = "confirmed"

\* C23: the pool is closed, and the process exits, only when no
\* processOrder attempt is in flight.
C23_ShutdownWaitsForAttempts ==
    (lifecycle.shutdown = "done" \/ lifecycle.exited) => Active = {}

\* C24: when an awaited store write of an attempt is rejected (the store
\* error of the model), the job is failed at once, whatever attempts remain,
\* and the row is recorded as failed.
C24_StoreErrorFailsJob ==
    [][\A o \in OrderIds :
          (o \in Active /\ proc[o].pc \in UpdatePcs /\ o \notin Active') =>
              /\ jobs'[o].state = "failed"
              /\ store'[o].status = "failed"]_vars

\* C25: the order intake builds carries the slippage of the request whenever
\* the request has one, the value 0 included, and 0.01 only when it has
\* none; the store row and the job payload carry the same value.
C25_SlippageKept ==
    \A o \in DOMAIN http :
        LET submitted == http[o].body.slippage
            expected == IF submitted = NULL THEN DefaultSlippage ELSE submitted[1]
        IN  /\ http[o].order.slippage = expected
            /\ o \in DOMAIN store => store[o].slippage = expected
            /\ o \in DOMAIN jobs => jobs[o].data.slippage = expected

\* C26: the row and the job payload of an order keep the tokenIn, tokenOut,
\* amountIn and orderType of its request ("SOL" stays "SOL") through every
\* worker, router and store operation.
C26_RequestFieldsKept ==
    \A o \in DOMAIN http :
        LET body == http[o].body
            Kept(r) == /\ r.tokenIn = body.tokenIn[1]
                       /\ r.tokenOut = body.tokenOut[1]
                       /\ r.amountIn = body.amountIn[1]
                       /\ r.orderType = body.orderType[1]
        IN  /\ o \in DOMAIN store => Kept(store[o])
            /\ o \in DOMAIN jobs => Kept(jobs[o].data)

\* An order submitted with tokenIn "SOL" was routed twice (with the wrapped
\* address in the quote calls) and confirmed on its second attempt.
C26_SolOrderConfirmed ==
    \E o \in DOMAIN store :
        /\ http[o].body.tokenIn = Some("SOL")
        /\ store[o].status = "confirmed" /\ store[o].dexUsed # NULL
        /\ jobs[o].attemptsMade = 1

\* C27: a failed attempt that is followed by a retry writes nothing to the
\* store and publishes no frame, and until the retry starts the row and the
\* latest published status stay as the attempt's last successful step left
\* them.
C27_FailedAttemptSilent ==
    [][\A o \in DOMAIN jobs :
          /\ (o \in Active /\ o \notin Active' /\ jobs'[o].state = "delayed") =>
                 /\ store'[o] = store[o]
                 /\ published'[o] = published[o]
                 /\ UNCHANGED <<registryVars, timers>>
          /\ jobs[o].state = "delayed" =>
                 store'[o] = store[o] /\ published'[o] = published[o]]_vars

\* An attempt failed in executeSwap and its retry is waiting: the row is
\* still submitted.
C27_RetryWaiting ==
    \E o \in DOMAIN jobs :
        /\ jobs[o].state = "delayed" /\ jobs[o].attemptsMade = 1
        /\ store[o].status = "submitted" /\ published[o] = "submitted"

\* C28: when the worker publishes a frame with status S for an order, the
\* store write setting the order's status to S has completed (the row holds
\* S); an attempt whose write of S is rejected goes to its catch block and
\* publishes nothing.
C28_FrameAfterWrite ==
    [][\A o \in OrderIds :
          /\ (o \in Active /\ proc[o].pc \in PublishPcs
                 /\ (o \notin Active' \/ proc'[o].pc # proc[o].pc)) =>
                 /\ store[o].status = published'[o]
                 /\ store'[o] = store[o]
          /\ (o \in Active /\ proc[o].pc \in UpdatePcs) =>
                 /\ published'[o] = published[o]
                 /\ o \in Active' =>
                       \/ proc'[o] = proc[o]
                       \/ /\ proc'[o].pc \in PublishPcs
                          /\ store'[o].status =
                                StatusChain[FramesOfAttempt(proc'[o].pc) + 2]]_vars

\* The write of status building was rejected in an attempt that had
\* published routing: the retry is waiting and no building frame exists.
C28_WriteRejected ==
    \E o \in DOMAIN jobs :
        /\ jobs[o].state = "delayed" /\ jobs[o].attemptsMade = 1
        /\ store[o].status = "routing" /\ published[o] = "routing"

\* C29: on a socket the stream handler registered, the first frame delivered
\* is the anchor frame with the status the handler read from the store; it
\* is delivered in the step that registers the socket (if the socket is
\* still open), so no publication of the worker comes before it.
C29_AnchorFirst ==
    [][\A k \in DOMAIN sockets :
          /\ (sockets'[k].handlers /\ sockets'[k].frames # <<>>) =>
                 sockets'[k].frames[1].kind = "anchor"
          /\ (sockets'[k].handlers /\ ~sockets[k].handlers) =>
                 /\ sockets[k].frames = <<>>
                 /\ sockets[k].readyState = "open" =>
                       /\ sockets'[k].frames # <<>>
                       /\ sockets'[k].frames[1] =
                             [kind |-> "anchor", orderId |-> sockets[k].orderId,
                              status |-> sockets[k].read[1].status,
                              data |-> NULL, error |-> ""]]_vars

\* A socket registered while its order was being built has received the
\* anchor frame with status building and then a frame of the worker.
C29_AnchoredMidway ==
    \E k \in DOMAIN sockets :
        /\ sockets[k].handlers /\ Len(sockets[k].frames) >= 2
        /\ sockets[k].frames[1].kind = "anchor"
        /\ sockets[k].frames[1].status = "building"
        /\ sockets[k].frames[2].kind = "update"

\* C30: when a sendUpdate of the worker finds an open registered socket and
\* the frame is not delivered (the send threw), the order's entry is removed
\* from the registry, nothing else of the registry changes, and the attempt
\* goes on: it reaches its next step or completes, and no failure is
\* counted.
C30_SendFailureContained ==
    [][\A o \in OrderIds :
          ( /\ o \in Active /\ proc[o].pc \in PublishPcs
            /\ (o \notin Active' \/ proc'[o].pc # proc[o].pc)
            /\ o \in DOMAIN connections
            /\ sockets[connections[o]].readyState = "open"
            /\ sockets'[connections[o]].frames = sockets[connections[o]].frames ) =>
              /\ o \notin DOMAIN connections'
              /\ sockets' = sockets
              /\ jobs'[o].attemptsMade = jobs[o].attemptsMade
              /\ IF proc[o].pc = "confirmedWritten"
                 THEN jobs'[o].state = "completed"
                 ELSE o \in Active' /\ proc'[o].pc \notin PublishPcs]_vars

\* A send failed during an attempt that went on to complete: the socket the
\* handler registered is open with no entry, and the confirmed frame never
\* reached it.
C30_EntryDroppedJobCompleted ==
    \E k \in DOMAIN sockets :
        /\ sockets[k].handlers /\ sockets[k].readyState = "open"
        /\ sockets[k].orderId \notin DOMAIN connections
        /\ sockets[k].orderId \in DOMAIN jobs
        /\ jobs[sockets[k].orderId].state = "completed"
        /\ jobs[sockets[k].orderId].attemptsMade = 0
        /\ \A i \in 1..Len(sockets[k].frames) : sockets[k].frames[i].status # "confirmed"

\* Where processOrder stands after the sendUpdate it makes at pc.
AfterPublish(pc) ==
    CASE pc = "routingWritten"   -> "getBestRoute"
      [] pc = "buildingWritten"  -> "sleep"
      [] pc = "submittedWritten" -> "executeSwap"

\* The step in which the attempt of order o calls sendUpdate.
PublishStep(o) ==
    /\ o \in Active /\ proc[o].pc \in PublishPcs
    /\ (o \notin Active' \/ proc'[o].pc # proc[o].pc)

\* C31: the registry never steers the order state machine.  A sendUpdate of
\* the worker leaves the store as it is and takes the attempt to the same
\* next step whether a socket is registered, none is, the socket is closed
\* or the send fails; and every other step that changes the registry or a
\* socket leaves the store, the queue and the attempts untouched.
C31_RegistryNeverSteers ==
    [][/\ \A o \in OrderIds :
             PublishStep(o) =>
                 /\ store' = store
                 /\ jobs'[o].attemptsMade = jobs[o].attemptsMade
                 /\ IF proc[o].pc = "confirmedWritten"
                    THEN jobs'[o].state = "completed" /\ o \notin Active'
                    ELSE /\ jobs'[o] = jobs[o]
                         /\ o \in Active'
                         /\ proc'[o] = [proc[o] EXCEPT !.pc = AfterPublish(proc[o].pc)]
       /\ (registryVars' # registryVars /\ \A o \in OrderIds : ~PublishStep(o)) =>
             UNCHANGED <<store, jobs, proc>>]_vars

\* The client closed its socket after the routing frame; the attempt went on
\* and the order is confirmed.
C31_ConfirmedAfterClientLeft ==
    \E k \in DOMAIN sockets :
        /\ sockets[k].readyState = "closed" /\ sockets[k].handlers
        /\ Len(sockets[k].frames) = 2
        /\ sockets[k].frames[2].status = "routing"
        /\ store[sockets[k].orderId].status = "confirmed"
        /\ published[sockets[k].orderId] = "confirmed"

\* C32: a row becomes confirmed only by the STEP 4 write of an attempt whose
\* executeSwap call returned success, and the tx_hash stored with it is the
\* hash that call returned; a result without success ends the attempt with
\* the row as it was.
C32_ConfirmedOnlyOnSuccess ==
    [][\A o \in DOMAIN store :
          /\ (store'[o].status = "confirmed" /\ store[o].status # "confirmed") =>
                 /\ o \in Active /\ proc[o].pc = "updConfirmed"
                 /\ proc[o].result # NULL /\ proc[o].result[1].success
                 /\ store'[o].txHash = proc[o].result[1].txHash
                 /\ store'[o].txHash = Some(<<o, jobs[o].attemptsMade>>)
          /\ (o \in Active' /\ proc'[o].pc \in {"updConfirmed", "confirmedWritten"}) =>
                 proc'[o].result # NULL /\ proc'[o].result[1].success
          /\ (o \in Active /\ proc[o].pc = "executeSwap" /\ o \notin Active') =>
                 /\ store'[o] = store[o] /\ store[o].status = "submitted"
                 /\ jobs'[o].attemptsMade = jobs[o].attemptsMade + 1]_vars

\* Two executeSwap calls failed and the third succeeded: the row is
\* confirmed with the hash of the third call.
C32_ConfirmedOnThirdCall ==
    \E o \in DOMAIN store :
        /\ store[o].status = "confirmed"
        /\ jobs[o].attemptsMade = 2
        /\ store[o].txHash = Some(<<o, 2>>)

\* C33: a row whose status is building, submitted or confirmed has a
\* dex_used; the write that confirms a row leaves in it the DEX the
\* confirming attempt selected and swapped on, and every confirmed frame
\* delivered for the order carries that same DEX.
C33_DexUsedKnown ==
    [][/\ \A o \in DOMAIN store' :
             store'[o].status \in {"building", "submitted", "confirmed"} =>
                 store'[o].dexUsed # NULL
       /\ \A o \in DOMAIN store :
             (store'[o].status = "confirmed" /\ store[o].status # "confirmed") =>
                 store'[o].dexUsed = Some(proc[o].route[1].selectedDex)
       /\ \A k \in DOMAIN sockets' : \A i \in 1..Len(sockets'[k].frames) :
             LET frame == sockets'[k].frames[i]
             IN  (frame.kind = "update" /\ frame.status = "confirmed") =>
                     Some(frame.data[1].dexUsed) = store'[frame.orderId].dexUsed]_vars

\* The order was confirmed on a retry and the socket received the confirmed
\* frame of the worker.
C33_ConfirmedFrameOnRetry ==
    \E k \in DOMAIN sockets :
        /\ sockets[k].orderId \in DOMAIN jobs
        /\ jobs[sockets[k].orderId].attemptsMade >= 1
        /\ store[sockets[k].orderId].status = "confirmed"
        /\ sockets[k].frames # <<>>
        /\ sockets[k].frames[Len(sockets[k].frames)].kind = "update"
        /\ sockets[k].frames[Len(sockets[k].frames)].status = "confirmed"
        /\ \E i \in 1..Len(sockets[k].frames) : sockets[k].frames[i].status = "routing"

\* C34: when a close timer closes the socket registered for an order, a
\* terminal frame (confirmed or failed) has been delivered on that socket.
C34_TerminalBeforeClose ==
    [][\A k \in DOMAIN sockets :
          ( /\ sockets[k].handlers
            /\ sockets[k].readyState = "open" /\ sockets'[k].readyState = "closed"
            /\ timers' # timers ) =>
              \E i \in 1..Len(sockets[k].frames) :
                  /\ sockets[k].frames[i].kind = "update"
                  /\ sockets[k].frames[i].status \in Terminal]_vars

\* C35: the 'close' (or 'error') event of a socket removes no registration
\* that refers to another socket.
C35_CloseDeregistersOwnEntry ==
    [][\A k \in DOMAIN sockets :
          (sockets[k].closeEvent /\ ~sockets'[k].closeEvent) =>
              \A o \in DOMAIN connections :
                  connections[o] # k =>
                      o \in DOMAIN connections' /\ connections'[o] = connections[o]]_vars

\* C36: every frame delivered on a socket carries the order id the socket
\* was opened and registered for, and every registry entry of an order id
\* refers to a socket opened for that id.
C36_FramesCarryOwnId ==
    /\ \A k \in DOMAIN sockets : \A i \in 1..Len(sockets[k].frames) :
          sockets[k].frames[i].orderId = sockets[k].orderId
    /\ \A o \in DOMAIN connections : sockets[connections[o]].orderId = o

\* Two open sockets are registered for two different orders, and the worker
\* has published the submitted frame of one of them.
C36_TwoOrdersStreamed ==
    \E k1, k2 \in DOMAIN sockets :
        /\ sockets[k1].orderId # sockets[k2].orderId
        /\ sockets[k1].orderId \in DOMAIN connections
        /\ sockets[k2].orderId \in DOMAIN connections
        /\ connections[sockets[k1].orderId] = k1
        /\ connections[sockets[k2].orderId] = k2
        /\ sockets[k1].readyState = "open" /\ sockets[k2].readyState = "open"
        /\ Len(sockets[k1].frames) = 4
        /\ sockets[k1].frames[4].status = "submitted"
        /\ Len(sockets[k2].frames) = 1

\* C37: an order has one job, and of the attempts started for it all but at
\* most one have ended: exactly one is running while the job is active and
\* none otherwise, and an attempt starts only when none is running.
C37_SingleAttempt ==
    [][/\ \A o \in DOMAIN jobs' :
             /\ (o \in Active') = (jobs'[o].state = "active")
             /\ jobs'[o].attemptsStarted =
                   jobs'[o].attemptsMade
                     + (IF jobs'[o].state \in {"active", "completed"} THEN 1 ELSE 0)
       /\ \A o \in DOMAIN jobs :
             jobs'[o].attemptsStarted > jobs[o].attemptsStarted =>
                 o \notin Active /\ o \in Active']_vars

\* Two orders are being processed at once, one of them in its second
\* attempt.
C37_TwoOrdersActive ==
    \E o1, o2 \in Active :
        /\ o1 # o2
        /\ jobs[o1].attemptsStarted = 2 /\ jobs[o1].attemptsMade = 1

\* C38: a request answered with an error status has left no row in the
\* store and no job in the queue.
C38_ErrorLeavesNothing ==
    \A o \in DOMAIN http :
        (http[o].pc = "replied" /\ http[o].code \in {400, 500}) =>
            o \notin DOMAIN store /\ o \notin DOMAIN jobs

\* C39: once the stored status of an order is confirmed or failed, no step
\* changes any field of its row; the only frame the worker publishes for it
\* after that write is the frame of that terminal status, once, and after
\* that frame the worker publishes nothing more for the order.
C39_TerminalIsFinal ==
    [][\A o \in DOMAIN store :
          /\ store[o].status \in Terminal => store'[o] = store[o]
          /\ (store[o].status \in Terminal /\ PublishStep(o)) =>
                 /\ published[o] \notin Terminal
                 /\ published'[o] = store[o].status
          /\ published[o] \in Terminal =>
                 /\ published'[o] = published[o]
                 /\ ~PublishStep(o)
                 /\ o \notin Active']_vars

\* One order is confirmed, its job completed and its confirmed frame
\* published, while the worker goes on processing the other order.
C39_ConfirmedWhileOtherRuns ==
    \E o \in DOMAIN store :
        /\ store[o].status = "confirmed" /\ published[o] = "confirmed"
        /\ jobs[o].state = "completed"
        /\ \E j \in Active : j # o /\ proc[j].pc = "executeSwap"

====
